---- MODULE Spec2Model ----
(***************************************************************************)
(* Model of Python/simple_calculator.py: the AST-walking evaluator         *)
(* safe_eval, evaluate_expression, format_result, the one-shot path of     *)
(* main and the interactive loop repl.                                     *)
(*                                                                         *)
(* Interpreter assumed: CPython 3.8 .. 3.13 (ast.parse yields ast.Constant *)
(* nodes, the alias ast.Num still exists, ast.Paren has never existed).    *)
(*                                                                         *)
(* Numbers.  A Python float is modelled by the rational it denotes, kept   *)
(* exactly while numerator and denominator stay within MaxNum; rounding    *)
(* error and the sign of zero are not modelled.  A float the model does    *)
(* not track (an irrational result of the math library, a value outside    *)
(* the exact window) is the value Real, which stands for ANY float; an     *)
(* untracked complex number is Cx.  An operation whose outcome depends on  *)
(* an untracked operand yields the SET of outcomes it can have, so every   *)
(* operation below returns a set of results and safe_eval a set of         *)
(* outcomes: a singleton wherever the operands are tracked.                *)
(***************************************************************************)
EXTENDS Integers, Sequences, FiniteSets, TLC

\* ---------------------------------------------------------------- bounds
\* Integer literals of the generated expressions are 0 .. MaxLit.
MaxLit == 2
\* Calls of the generated expressions take 0 .. MaxArgs arguments.
MaxArgs == 2
\* Exact window of the rationals: |numerator| and denominator <= MaxNum.
MaxNum == 1000
\* The REPL model stops taking expression lines at MaxHist history entries
\* and at MaxInputs lines read.
MaxHist == 2
MaxInputs == 4

\* ---------------------------------------------------------------- values
Abs(x) == IF x < 0 THEN -x ELSE x

RECURSIVE GCD(_, _)
GCD(a, b) == IF b = 0 THEN a ELSE GCD(b, a % b)

NaN  == [k |-> "nan", n |-> 0, d |-> 0]
Real == [k |-> "real", n |-> 0, d |-> 0]
Cx   == [k |-> "complex", n |-> 0, d |-> 0]
Inf(s) == [k |-> "inf", n |-> s, d |-> 0]

\* The float n/d (d # 0), in lowest terms; Real when outside the exact window.
Q(n, d) ==
    LET g  == GCD(Abs(n), Abs(d))
        nn == (IF d < 0 THEN -n ELSE n) \div g
        dd == Abs(d) \div g
    IN  IF Abs(nn) > MaxNum \/ dd > MaxNum THEN Real
        ELSE [k |-> "q", n |-> nn, d |-> dd]

IsQ(v)    == v.k = "q"
IsZero(v) == v.k = "q" /\ v.n = 0
IsInt(v)  == v.k = "q" /\ v.d = 1
\* -1, 0, 1 for a tracked real (a rational or an infinity)
Sign(v)   == IF v.n > 0 THEN 1 ELSE IF v.n < 0 THEN -1 ELSE 0
Neg(v)    == IF v.k \in {"q", "inf"} THEN [v EXCEPT !.n = -v.n] ELSE v
\* a < b for tracked rationals
Less(a, b) == a.n * b.d < b.n * a.d
Floor(v)   == v.n \div v.d

\* A result of one Python operation: a value, or a raised exception.
Ok(v)    == [exc |-> "", v |-> v]
Raise(e) == [exc |-> e, v |-> NaN]

\* ------------------------------------------------- float arithmetic (exact)
FAdd(a, b) ==
    IF a.k = "complex" \/ b.k = "complex" THEN Cx
    ELSE IF a.k = "real" \/ b.k = "real" THEN Real
    ELSE IF a.k = "nan" \/ b.k = "nan" THEN NaN
    ELSE IF a.k = "inf" /\ b.k = "inf" THEN (IF a.n = b.n THEN a ELSE NaN)
    ELSE IF a.k = "inf" THEN a
    ELSE IF b.k = "inf" THEN b
    ELSE Q(a.n * b.d + b.n * a.d, a.d * b.d)

FMul(a, b) ==
    IF a.k = "complex" \/ b.k = "complex" THEN Cx
    ELSE IF a.k = "real" \/ b.k = "real" THEN Real
    ELSE IF a.k = "nan" \/ b.k = "nan" THEN NaN
    ELSE IF a.k = "inf" \/ b.k = "inf"
         THEN (IF Sign(a) = 0 \/ Sign(b) = 0 THEN NaN ELSE Inf(Sign(a) * Sign(b)))
    ELSE Q(a.n * b.n, a.d * b.d)

\* a / b for a tracked, nonzero b
FDiv(a, b) ==
    IF a.k = "complex" THEN Cx
    ELSE IF a.k = "real" THEN Real
    ELSE IF a.k = "nan" \/ b.k = "nan" THEN NaN
    ELSE IF a.k = "inf" THEN (IF b.k = "inf" THEN NaN ELSE Inf(Sign(a) * Sign(b)))
    ELSE IF b.k = "inf" THEN Q(0, 1)
    ELSE Q(a.n * b.d, a.d * b.n)

\* floor(n / d) for integers n, d with d # 0
FloorQuot(n, d) == IF d < 0 THEN (-n) \div (-d) ELSE n \div d

\* a % b of Python floats for tracked real a and tracked, nonzero real b:
\* a - b * floor(a / b), so a non-zero remainder takes the sign of b.
FMod(a, b) ==
    IF a.k = "nan" \/ b.k = "nan" \/ a.k = "inf" THEN NaN
    ELSE IF b.k = "inf"
         THEN (IF Sign(a) = 0 \/ Sign(a) = Sign(b) THEN a ELSE b)
    ELSE FAdd(a, Neg(FMul(b, Q(FloorQuot(a.n * b.d, a.d * b.n), 1))))

\* a // b of Python floats for tracked real a and tracked, nonzero real b
FFloorDiv(a, b) ==
    IF a.k = "nan" \/ b.k = "nan" \/ a.k = "inf" THEN NaN
    ELSE IF b.k = "inf"
         THEN (IF Sign(a) = 0 \/ Sign(a) = Sign(b) THEN Q(0, 1) ELSE Q(-1, 1))
    ELSE Q(FloorQuot(a.n * b.d, a.d * b.n), 1)

\* acc * a^e for tracked rationals and an integer e >= 0, by repeated product;
\* Real as soon as the product leaves the exact window.
RECURSIVE IntPow(_, _, _)
IntPow(acc, a, e) ==
    IF e = 0 \/ acc.k # "q" THEN acc ELSE IntPow(FMul(acc, a), a, e - 1)

\* Whether |a|^b can exceed the largest float, for tracked rationals a, b:
\* the magnitude must grow and the exponent be large enough to matter.
MayOverflow(a, b) ==
    /\ Abs(b.n) > b.d
    /\ \/ Abs(a.n) > a.d /\ b.n > 0
       \/ Abs(a.n) < a.d /\ b.n < 0

\* float.__pow__(a, b) on tracked reals: the set of results
FPow(a, b) ==
    IF IsZero(b) THEN {Ok(Q(1, 1))}
    ELSE IF a.k = "nan" THEN {Ok(NaN)}
    ELSE IF b.k = "nan" THEN {Ok(IF a = Q(1, 1) THEN a ELSE NaN)}
    ELSE IF b.k = "inf" THEN
        IF a.k = "q" /\ Abs(a.n) = a.d THEN {Ok(Q(1, 1))}
        ELSE IF (b.n > 0) = (a.k = "inf" \/ Abs(a.n) > a.d) THEN {Ok(Inf(1))}
        ELSE {Ok(Q(0, 1))}
    ELSE IF a.k = "inf" THEN
        IF b.n < 0 THEN {Ok(Q(0, 1))}
        ELSE IF a.n < 0 /\ b.d = 1 /\ b.n % 2 = 1 THEN {Ok(Inf(-1))}
        ELSE {Ok(Inf(1))}
    ELSE IF IsZero(a) THEN
        IF b.n < 0 THEN {Raise("ZeroDivisionError")} ELSE {Ok(Q(0, 1))}
    ELSE IF a.n < 0 /\ b.d # 1 THEN {Ok(Cx)}
    ELSE IF a = Q(1, 1) THEN {Ok(a)}
    ELSE IF a = Q(-1, 1) THEN {Ok(IF b.n % 2 = 0 THEN Q(1, 1) ELSE a)}
    ELSE LET r == IF b.d # 1 THEN Real
                  ELSE IF b.n > 0 THEN IntPow(Q(1, 1), a, b.n)
                  ELSE IntPow(Q(1, 1), Q(a.d, a.n), -b.n)
         IN  IF r.k = "q" THEN {Ok(r)}
             ELSE {Ok(Real)} \cup
                  (IF MayOverflow(a, b) THEN {Raise("OverflowError")} ELSE {})

Untracked(v) == v.k \in {"real", "complex"}

\* ALLOWED_BINARY_OPS: the operator types of the table
ALLOWED_BINARY_OPS == {"Add", "Sub", "Mult", "Div", "Mod", "Pow", "FloorDiv"}

\* A division that follows IEEE 754 instead of raising
DivLambdaIEEE(a, b) ==
    IF IsZero(b)
    THEN {Ok(IF a.k \in {"q", "inf"} /\ a.n # 0 THEN Inf(Sign(a)) ELSE NaN)}
    ELSE IF Untracked(b)
         THEN {Ok(IF a.k = "complex" \/ b.k = "complex" THEN Cx ELSE Real)}
    ELSE {Ok(FDiv(a, b))}

\* lambda a, b: a / b.  Python raises ZeroDivisionError for every zero divisor.
DivLambda(a, b) ==
    IF IsZero(b) THEN {Raise("ZeroDivisionError")}
    ELSE IF Untracked(b)
         THEN {Ok(IF a.k = "complex" \/ b.k = "complex" THEN Cx ELSE Real),
               Raise("ZeroDivisionError")}
    ELSE {Ok(FDiv(a, b))}

\* A remainder that truncates the quotient, as C's fmod does: the sign of a
ModLambdaTruncating(a, b) ==
    IF a.k = "complex" \/ b.k = "complex" THEN {Raise("TypeError")}
    ELSE IF IsZero(b) THEN {Raise("ZeroDivisionError")}
    ELSE IF b.k = "real" THEN {Ok(Real), Raise("ZeroDivisionError")}
    ELSE IF a.k = "real" THEN {Ok(Real)}
    ELSE IF a.k = "nan" \/ b.k = "nan" \/ a.k = "inf" THEN {Ok(NaN)}
    ELSE IF b.k = "inf" THEN {Ok(a)}
    ELSE LET qn == a.n * b.d
             qd == a.d * b.n
             tq == IF (qn < 0) = (qd < 0) THEN Abs(qn) \div Abs(qd)
                   ELSE -(Abs(qn) \div Abs(qd))
         IN  {Ok(FAdd(a, Neg(FMul(b, Q(tq, 1)))))}

\* lambda a, b: a % b.  complex has no %.
ModLambda(a, b) ==
    IF a.k = "complex" \/ b.k = "complex" THEN {Raise("TypeError")}
    ELSE IF IsZero(b) THEN {Raise("ZeroDivisionError")}
    ELSE IF b.k = "real" THEN {Ok(Real), Raise("ZeroDivisionError")}
    ELSE IF a.k = "real" THEN {Ok(Real)}
    ELSE {Ok(FMod(a, b))}

\* lambda a, b: a // b.  complex has no //.
FloorDivLambda(a, b) ==
    IF a.k = "complex" \/ b.k = "complex" THEN {Raise("TypeError")}
    ELSE IF IsZero(b) THEN {Raise("ZeroDivisionError")}
    ELSE IF b.k = "real" THEN {Ok(Real), Raise("ZeroDivisionError")}
    ELSE IF a.k = "real" THEN {Ok(Real)}
    ELSE {Ok(FFloorDiv(a, b))}

\* lambda a, b: a ** b.  A negative base with a fractional exponent gives a
\* complex number (Python 3), not an exception.
PowLambda(a, b) ==
    IF IsZero(b) THEN {Ok(IF a.k = "complex" THEN Cx ELSE Q(1, 1))}
    ELSE IF a.k = "complex" \/ b.k = "complex"
         THEN {Ok(Cx), Raise("ZeroDivisionError"), Raise("OverflowError")}
    ELSE IF a.k = "real" \/ b.k = "real"
         THEN {Ok(Real), Ok(Cx), Raise("ZeroDivisionError"), Raise("OverflowError")}
    ELSE FPow(a, b)

\* ALLOWED_BINARY_OPS[op](a, b): the set of results
BinaryFunc(op, a, b) ==
    CASE op = "Add"      -> {Ok(FAdd(a, b))}
      [] op = "Sub"      -> {Ok(FAdd(a, Neg(b)))}
      [] op = "Mult"     -> {Ok(FMul(a, b))}
      [] op = "Div"      -> DivLambda(a, b)
      [] op = "Mod"      -> ModLambda(a, b)
      [] op = "Pow"      -> PowLambda(a, b)
      [] op = "FloorDiv" -> FloorDivLambda(a, b)

\* ALLOWED_UNARY_OPS
ALLOWED_UNARY_OPS == {"UAdd", "USub"}

UnaryFunc(op, a) == IF op = "USub" THEN Neg(a) ELSE a

\* ------------------------------------------------------- constants (l. 73-78)
\* math.pi, math.e, math.tau as rationals near them (tau = 2 * pi exactly)
PiQ == Q(355, 113)

constants ==
    [pi |-> PiQ, e |-> Q(193, 71), tau |-> Q(710, 113), inf |-> Inf(1)]

\* ------------------------------------------------------ builtins and math
\* round(x): to the nearest integer, ties to even
RoundHalfEven(v) ==
    LET fl == Floor(v)
        r2 == 2 * (v.n - fl * v.d)      \* twice the remainder, against v.d
    IN  IF r2 < v.d THEN fl
        ELSE IF r2 > v.d THEN fl + 1
        ELSE IF fl % 2 = 0 THEN fl ELSE fl + 1

\* float(round(x)) of the builtin
BuiltinRound(x) ==
    CASE x.k = "q"       -> {Ok(Q(RoundHalfEven(x), 1))}
      [] x.k = "inf"     -> {Raise("OverflowError")}
      [] x.k = "nan"     -> {Raise("ValueError")}
      [] x.k = "complex" -> {Raise("TypeError")}
      [] x.k = "real"    -> {Ok(Real), Raise("OverflowError"), Raise("ValueError")}

\* float(abs(x)) of the builtin: defined on every float and complex
BuiltinAbs(x) ==
    CASE x.k = "q"       -> {Ok(Q(Abs(x.n), x.d))}
      [] x.k = "inf"     -> {Ok(Inf(1))}
      [] x.k = "nan"     -> {Ok(NaN)}
      [] x.k \in {"real", "complex"} -> {Ok(Real)}

IsSquare(n) == \E r \in 0 .. n : r * r = n
ISqrt(n)    == CHOOSE r \in 0 .. n : r * r = n

\* The names of the math module among those a call can reach: math has no
\* abs and no round.
MathNames ==
    {"sqrt", "sin", "cos", "tan", "log", "log10", "exp", "ceil", "floor",
     "degrees", "radians", "asin", "acos", "atan", "sinh", "cosh", "tanh"}

\* ValueError ("math domain error", "cannot convert float NaN to integer")
\* is possible for some float argument
MayValueError ==
    {"sqrt", "sin", "cos", "tan", "log", "log10", "ceil", "floor", "asin", "acos"}
\* OverflowError ("math range error", "cannot convert float infinity to
\* integer") is possible for some float argument
MayOverflowError == {"exp", "sinh", "cosh", "ceil", "floor"}

\* x > 709.782 (exp) or |x| > 710.475 (sinh, cosh): the result exceeds the
\* largest float
ExpOverflows(x)  == x.n * 1000 > 709782 * x.d
SinhOverflows(x) == Abs(x.n) * 1000 > 710475 * x.d

\* math.<f>(x) for one float argument: exact where the result is rational,
\* Real otherwise
Math1(f, x) ==
    CASE x.k = "complex" -> {Raise("TypeError")}
      [] x.k = "real" ->
            {Ok(Real)}
            \cup (IF f \in MayValueError THEN {Raise("ValueError")} ELSE {})
            \cup (IF f \in MayOverflowError THEN {Raise("OverflowError")} ELSE {})
      [] x.k = "nan" ->
            IF f \in {"ceil", "floor"} THEN {Raise("ValueError")} ELSE {Ok(NaN)}
      [] x.k = "inf" ->
           (CASE f \in {"sin", "cos", "tan", "asin", "acos"} -> {Raise("ValueError")}
              [] f \in {"sqrt", "log", "log10"} ->
                    IF x.n > 0 THEN {Ok(x)} ELSE {Raise("ValueError")}
              [] f \in {"ceil", "floor"} -> {Raise("OverflowError")}
              [] f = "exp"  -> {Ok(IF x.n > 0 THEN x ELSE Q(0, 1))}
              [] f = "cosh" -> {Ok(Inf(1))}
              [] f = "tanh" -> {Ok(Q(x.n, 1))}
              [] f = "atan" -> {Ok(Real)}
              [] f \in {"degrees", "radians", "sinh"} -> {Ok(x)})
      [] x.k = "q" ->
           (CASE f = "sqrt" ->
                    IF x.n < 0 THEN {Raise("ValueError")}
                    ELSE IF IsSquare(x.n) /\ IsSquare(x.d)
                         THEN {Ok(Q(ISqrt(x.n), ISqrt(x.d)))}
                    ELSE {Ok(Real)}
              [] f \in {"log", "log10"} ->
                    IF x.n <= 0 THEN {Raise("ValueError")}
                    ELSE IF x = Q(1, 1) THEN {Ok(Q(0, 1))}
                    ELSE IF f = "log10" /\ x \in {Q(10, 1), Q(100, 1), Q(1000, 1)}
                         THEN {Ok(Q(IF x.n = 10 THEN 1 ELSE IF x.n = 100 THEN 2 ELSE 3, 1))}
                    ELSE {Ok(Real)}
              [] f = "exp" ->
                    IF x.n = 0 THEN {Ok(Q(1, 1))}
                    ELSE IF ExpOverflows(x) THEN {Raise("OverflowError")}
                    ELSE {Ok(Real)}
              [] f \in {"sinh", "cosh"} ->
                    IF x.n = 0 THEN {Ok(Q(IF f = "cosh" THEN 1 ELSE 0, 1))}
                    ELSE IF SinhOverflows(x) THEN {Raise("OverflowError")}
                    ELSE {Ok(Real)}
              [] f = "ceil"    -> {Ok(Q(-((-x.n) \div x.d), 1))}
              [] f = "floor"   -> {Ok(Q(Floor(x), 1))}
              [] f = "degrees" -> {Ok(FDiv(FMul(x, Q(180, 1)), PiQ))}
              [] f = "radians" -> {Ok(FDiv(FMul(x, PiQ), Q(180, 1)))}
              [] f \in {"asin", "acos"} ->
                    IF Abs(x.n) > x.d THEN {Raise("ValueError")}
                    ELSE IF (f = "asin" /\ x.n = 0) \/ (f = "acos" /\ x = Q(1, 1))
                         THEN {Ok(Q(0, 1))}
                    ELSE {Ok(Real)}
              [] f = "cos" -> {Ok(IF x.n = 0 THEN Q(1, 1) ELSE Real)}
              [] f \in {"sin", "tan", "atan", "tanh"} ->
                    {Ok(IF x.n = 0 THEN x ELSE Real)})

\* math.log(x, base): log(x) / log(base); a base of 1 divides by zero
MathLog2(x, base) ==
    UNION { IF num.exc # "" THEN {num}
            ELSE UNION { IF den.exc # "" THEN {den}
                         ELSE IF IsZero(den.v) THEN {Raise("ZeroDivisionError")}
                         ELSE IF den.v = Real /\ base.k = "real"
                              THEN {Ok(Real), Raise("ZeroDivisionError")}
                         ELSE IF IsZero(num.v) THEN {Ok(Q(0, 1))}
                         ELSE IF Untracked(num.v) \/ Untracked(den.v) THEN {Ok(Real)}
                         ELSE {Ok(FDiv(num.v, den.v))}
                       : den \in Math1("log", base) }
          : num \in Math1("log", x) }

\* getattr(math, f)(*args): AttributeError when math has no such name,
\* TypeError on a wrong argument count
MathCall(f, args) ==
    IF f \notin MathNames THEN {Raise("AttributeError")}
    ELSE IF Len(args) = 1 THEN Math1(f, args[1])
    ELSE IF f = "log" /\ Len(args) = 2 THEN MathLog2(args[1], args[2])
    ELSE {Raise("TypeError")}

\* Whether the dispatch of lines 114-122 gets as far as calling a function
\* (abs indexes args[0] first, math.round does not exist)
Invokes(f, args) ==
    IF f = "round" /\ Len(args) = 1 THEN TRUE
    ELSE IF f = "abs" THEN Len(args) >= 1
    ELSE f \in MathNames

\* Lines 114-122: the dispatch of an allowed function on evaluated arguments
Dispatch(f, args) ==
    IF f = "round" /\ Len(args) = 1 THEN BuiltinRound(args[1])
    ELSE IF f = "abs"
         THEN (IF Len(args) = 0 THEN {Raise("IndexError")} ELSE BuiltinAbs(args[1]))
    ELSE MathCall(f, args)

\* ---------------------------------------------------------------- the AST
\* Nodes as ast.parse builds them (the fields safe_eval reads):
\*   [t |-> "Expression", body]
\*   [t |-> "Constant", ty, v]      ty: the Python type of node.value,
\*                                  v: float(node.value) where that is a number
\*   [t |-> "Name", id]
\*   [t |-> "BinOp", op, left, right]
\*   [t |-> "UnaryOp", op, operand]
\*   [t |-> "Call", func, args]     func: a Name or an Attribute node
\*   [t |-> "Attribute"], [t |-> "Compare"]: node kinds safe_eval has no case for
Constant(ty, v)      == [t |-> "Constant", ty |-> ty, v |-> v]
Name(id)             == [t |-> "Name", id |-> id]
BinOp(op, l, r)      == [t |-> "BinOp", op |-> op, left |-> l, right |-> r]
UnaryOp(op, x)       == [t |-> "UnaryOp", op |-> op, operand |-> x]
Call(func, args)     == [t |-> "Call", func |-> func, args |-> args]
Expression(body)     == [t |-> "Expression", body |-> body]
Attribute            == [t |-> "Attribute"]
Compare              == [t |-> "Compare"]

\* ------------------------------------------------------------- outcomes
\* What one call of safe_eval does: the exception it raises (exc = "" for a
\* normal return of v), for EvalError its message and the node (path from the
\* root) that raised it, and the trace of what was done, in order:
\*   visit  - safe_eval entered on the node at that path
\*   binop  - a function of ALLOWED_BINARY_OPS applied at that path
\*   unop   - a function of ALLOWED_UNARY_OPS applied
\*   call   - a builtin or math function invoked
\* the last three with the operand values and the result of the operation.
Event(e, at) == [e |-> e, at |-> at]
OpEvent(e, at, args, res) == [e |-> e, at |-> at, args |-> args, res |-> res]

Return(v, tr) == [exc |-> "", msg |-> "", at |-> <<>>, v |-> v, trace |-> tr]
Throw(exc, msg, at, tr) ==
    [exc |-> exc, msg |-> msg, at |-> at, v |-> NaN, trace |-> tr]
\* The outcome o of a nested call, after the events tr of the caller
After(tr, o) == [o EXCEPT !.trace = tr \o @]

\* Line 105-109: allowed_functions
allowed_functions ==
    {"sqrt", "sin", "cos", "tan", "log", "log10", "exp",
     "abs", "ceil", "floor", "round", "degrees", "radians",
     "asin", "acos", "atan", "sinh", "cosh", "tanh"}

\* A check of the callee's node kind alone
CalleeAllowedAnyName(func) == func.t = "Name"

\* Line 110: the callee is a bare name of the allowlist
CalleeAllowed(func) == func.t = "Name" /\ func.id \in allowed_functions

\* Line 64: isinstance(node.value, (int, float)); bool is a subclass of int
IsIntOrFloat(ty) == ty \in {"int", "float", "bool"}

\* Lines 63-66
eval_Constant(node, p, here) ==
    IF IsIntOrFloat(node.ty) THEN {Return(node.v, here)}
    ELSE {Throw("EvalError", "Unsupported constant type", p, here)}

\* Lines 71-81
eval_Name(node, p, here) ==
    IF node.id \in DOMAIN constants THEN {Return(constants[node.id], here)}
    ELSE {Throw("EvalError", "Undefined variable", p, here)}

\* A BinOp that looks its operator up before it evaluates the operands
eval_BinOp_OpFirst(node, p, here, L, R) ==
    IF node.op \notin ALLOWED_BINARY_OPS
    THEN {Throw("EvalError", "Operator not allowed", p, here)}
    ELSE UNION { IF l.exc # "" THEN {After(here, l)}
                 ELSE UNION {
                     IF r.exc # "" THEN {After(here \o l.trace, r)}
                     ELSE { LET done == Append(here \o l.trace \o r.trace,
                                               OpEvent("binop", p, <<l.v, r.v>>, x))
                            IN  IF x.exc = "" THEN Return(x.v, done)
                                ELSE Throw("EvalError", "Error evaluating binary op",
                                           p, done)
                          : x \in BinaryFunc(node.op, l.v, r.v) }
                     : r \in R }
               : l \in L }

\* Lines 83-93, given the outcomes L of safe_eval(node.left) and R of
\* safe_eval(node.right): left, then right, then the operator lookup, then
\* the operation, whose every exception becomes EvalError
eval_BinOp(node, p, here, L, R) ==
    UNION { IF l.exc # "" THEN {After(here, l)}
            ELSE UNION {
                IF r.exc # "" THEN {After(here \o l.trace, r)}
                ELSE LET tr == here \o l.trace \o r.trace IN
                     IF node.op \notin ALLOWED_BINARY_OPS
                     THEN {Throw("EvalError", "Operator not allowed", p, tr)}
                     ELSE { LET done == Append(tr, OpEvent("binop", p, <<l.v, r.v>>, x))
                            IN  IF x.exc = "" THEN Return(x.v, done)
                                ELSE Throw("EvalError", "Error evaluating binary op",
                                           p, done)
                          : x \in BinaryFunc(node.op, l.v, r.v) }
                : r \in R }
          : l \in L }

\* Lines 95-101, given the outcomes X of safe_eval(node.operand)
eval_UnaryOp(node, p, here, X) ==
    { IF x.exc # "" THEN After(here, x)
      ELSE IF node.op \notin ALLOWED_UNARY_OPS
           THEN Throw("EvalError", "Unary operator not allowed", p, here \o x.trace)
      ELSE LET y == UnaryFunc(node.op, x.v)
           IN  Return(y, Append(here \o x.trace, OpEvent("unop", p, <<x.v>>, Ok(y))))
    : x \in X }

\* Line 123: the exceptions the call site catches and turns into EvalError
Caught == {"AttributeError", "ValueError", "TypeError"}

\* Lines 111-124 for an allowed callee, given the outcomes A of evaluating
\* the argument list (a.vals the values, or a.exc the first failure)
eval_Call(node, p, here, A) ==
    UNION { IF a.exc # "" THEN {Throw(a.exc, a.msg, a.at, here \o a.trace)}
            ELSE LET f == node.func.id IN
                 { LET tr == IF Invokes(f, a.vals)
                             THEN Append(here \o a.trace, OpEvent("call", p, a.vals, x))
                             ELSE here \o a.trace
                   IN  IF x.exc = "" THEN Return(x.v, tr)
                       ELSE IF x.exc \in Caught
                            THEN Throw("EvalError", "Error calling", p, tr)
                       ELSE Throw(x.exc, "", p, tr)
                 : x \in Dispatch(f, a.vals) }
          : a \in A }

RECURSIVE safe_eval(_, _)
RECURSIVE EvalArgs(_, _, _)

\* Line 112: [safe_eval(arg) for arg in node.args], from argument i on: left
\* to right, stopping at the first exception.  The arguments of the node at
\* path p are at p \o <<1>>, p \o <<2>>, ...
EvalArgs(args, i, p) ==
    IF i > Len(args)
    THEN {[exc |-> "", msg |-> "", at |-> <<>>, vals |-> <<>>, trace |-> <<>>]}
    ELSE UNION { IF o.exc # ""
                 THEN {[exc |-> o.exc, msg |-> o.msg, at |-> o.at,
                        vals |-> <<>>, trace |-> o.trace]}
                 ELSE { [rest EXCEPT !.vals = <<o.v>> \o @,
                                     !.trace = o.trace \o @]
                        : rest \in EvalArgs(args, i + 1, p) }
               : o \in safe_eval(args[i], Append(p, i)) }

\* Lines 55-133.  The ast.Num test of line 68 is false for every node that
\* reaches it; ast.Expr cannot occur under mode="eval"; the ast.Paren test of
\* line 130 raises AttributeError, since the ast module has no Paren.
safe_eval(node, p) ==
    LET here == <<Event("visit", p)>> IN
    CASE node.t = "Expression" ->
            {After(here, o) : o \in safe_eval(node.body, Append(p, 1))}
      [] node.t = "Constant" -> eval_Constant(node, p, here)
      [] node.t = "Name"     -> eval_Name(node, p, here)
      [] node.t = "BinOp" ->
            eval_BinOp(node, p, here, safe_eval(node.left, Append(p, 1)),
                       safe_eval(node.right, Append(p, 2)))
      [] node.t = "UnaryOp" ->
            eval_UnaryOp(node, p, here, safe_eval(node.operand, Append(p, 1)))
      [] node.t = "Call" ->
            IF CalleeAllowed(node.func)
            THEN eval_Call(node, p, here, EvalArgs(node.args, 1, p))
            ELSE {Throw("EvalError", "Function calls are not allowed", p, here)}
      [] OTHER -> {Throw("AttributeError", "", p, here)}

\* Lines 136-142.  parsed is what ast.parse(expr, mode="eval") does on the
\* input: it raises SyntaxError (parsed.exc), or returns the tree parsed.tree.
evaluate_expression(parsed) ==
    IF parsed.exc = "SyntaxError"
    THEN {Throw("EvalError", "Syntax error", <<>>, <<>>)}
    ELSE safe_eval(parsed.tree, <<>>)

\* ------------------------------------------------------- format_result
\* A formatted string is modelled by the branch that produced it and the
\* number it shows: "sci" (f"{x:.6e}"), "int" (str(int(x))), "g" (f"{x:.10g}").
Str(f, v) == [f |-> f, v |-> v]

\* abs(x) > 1e15 for a tracked rational, without leaving 32-bit integers
Above1e15(x) ==
    LET q1 == Abs(x.n) \div x.d
        r1 == Abs(x.n) % x.d
        q2 == q1 \div 1000000
        r2 == q1 % 1000000
    IN  q2 > 1000000000 \/ (q2 = 1000000000 /\ (r2 > 0 \/ r1 > 0))

\* abs(x) < 1e-4 and x != 0
Tiny(x) == x.n # 0 /\ Abs(x.n) * 10000 < x.d

\* abs(x - int(x)) < 1e-12, int() truncating toward zero
NearInt(x) == (Abs(x.n) % x.d) * 1000000 <= (x.d - 1) \div 1000000

\* int(x) for a tracked rational
Trunc(x) == IF x.n < 0 THEN -((-x.n) \div x.d) ELSE x.n \div x.d

\* Lines 145-155: the set of results (a string, or the exception raised)
format_result(result) ==
    CASE result.k = "q" ->
            IF Above1e15(result) \/ Tiny(result) THEN {Ok(Str("sci", result))}
            ELSE IF NearInt(result) THEN {Ok(Str("int", Q(Trunc(result), 1)))}
            ELSE {Ok(Str("g", result))}
      [] result.k = "inf" -> {Ok(Str("sci", result))}
         \* every comparison with NaN is false; int(nan) raises
      [] result.k = "nan" -> {Raise("ValueError")}
         \* int() of a complex number raises, unless line 147 took it
      [] result.k = "complex" -> {Ok(Str("sci", result)), Raise("TypeError")}
      [] result.k = "real" ->
            {Ok(Str("sci", result)), Ok(Str("int", result)), Ok(Str("g", result)),
             Raise("ValueError")}

\* ------------------------------------------------------------ the state
VARIABLES
    pc,       \* where the program is: "main", "evaluated", "prompt", "done"
    input,    \* one-shot: what ast.parse makes of --expr; REPL: the line read
    out,      \* the outcome of the last evaluate_expression, or NoOut
    printed,  \* what the last step printed, or Nothing
    exit,     \* how the program ended: "" while running, "0", "1", "quit",
              \* "eof", or "traceback" for an uncaught exception
    history,  \* repl's history: a sequence of <<s, formatted_result>>
    nread     \* lines read by the REPL

vars == <<pc, input, out, printed, exit, history, nread>>

NoOut   == [exc |-> "none", msg |-> "", at |-> <<>>, v |-> NaN, trace |-> <<>>]
Nothing == [f |-> "nothing"]

\* ---------------------------------------------- the expressions evaluated
\* Sequences over S of length 0 .. n
RECURSIVE SeqsUpTo(_, _)
SeqsUpTo(S, n) ==
    IF n = 0 THEN {<<>>}
    ELSE LET shorter == SeqsUpTo(S, n - 1)
         IN  shorter \cup {Append(q, x) : q \in {r \in shorter : Len(r) = n - 1}, x \in S}

Num(i) == Constant("int", Q(i, 1))
Half   == Constant("float", Q(1, 2))
True   == Constant("bool", Q(1, 1))
StrLit == [t |-> "Constant", ty |-> "str"]

NumLeaves == {Num(i) : i \in 0 .. MaxLit} \cup {Half}
Leaves ==
    NumLeaves \cup {True, StrLit, Name("pi"), Name("inf"), Name("foo"), Compare}
\* -x parses as UnaryOp(USub, x): the negative operands
Operands == Leaves \cup {UnaryOp("USub", x) : x \in NumLeaves}
\* Arguments of the generated calls: one argument ranges over ArgLeaves,
\* the arguments of a longer list over MoreArgs
ArgLeaves ==
    {Num(0), Num(1), Num(MaxLit), Num(1000), UnaryOp("USub", Num(1)),
     Name("inf"), Name("foo")}
MoreArgs == {Num(1), Num(MaxLit), Name("foo")}
ArgLists ==
    {<<>>} \cup {<<x>> : x \in ArgLeaves}
    \cup {q \in SeqsUpTo(MoreArgs, MaxArgs) : Len(q) >= 2}
Callees == {Name(f) : f \in allowed_functions \cup {"open"}} \cup {Attribute}

Core ==
    Operands
    \cup {UnaryOp(op, x) : op \in {"UAdd", "USub", "Invert"}, x \in Leaves}
    \cup {BinOp(op, a, b) : op \in ALLOWED_BINARY_OPS \cup {"LShift"},
                            a \in Operands, b \in Operands}
    \cup {Call(f, args) : f \in Callees, args \in ArgLists}

\* One more level around an expression x
Wrap(x) ==
    {BinOp("Add", x, Num(1)), BinOp("Add", Name("foo"), x),
     BinOp("Div", Num(1), x), BinOp("Pow", x, Half),
     BinOp("LShift", x, Name("foo")),
     Call(Name("floor"), <<x>>), Call(Name("open"), <<x>>)}

Trees == Core \cup UNION {Wrap(x) : x \in Core}

\* What ast.parse returns or raises on the inputs considered
SyntaxError == [exc |-> "SyntaxError"]
Parsed(tree) == [exc |-> "", tree |-> Expression(tree)]
Inputs == {SyntaxError} \cup {Parsed(x) : x \in Trees}

\* ------------------------------------------- main, one-shot (l. 268-275)
Init ==
    /\ pc = "main"
    /\ input \in Inputs
    /\ out = NoOut
    /\ printed = Nothing
    /\ exit = ""
    /\ history = <<>>
    /\ nread = 0

\* Line 270: result = evaluate_expression(args.expr)
Evaluate ==
    /\ pc = "main"
    /\ \E o \in evaluate_expression(input) : out' = o
    /\ pc' = "evaluated"
    /\ UNCHANGED <<input, printed, exit, history, nread>>

\* Lines 271-273: except EvalError: print, return 1
ReportError ==
    /\ pc = "evaluated"
    /\ out.exc = "EvalError"
    /\ printed' = [f |-> "Error", msg |-> out.msg]
    /\ exit' = "1"
    /\ pc' = "done"
    /\ UNCHANGED <<input, out, history, nread>>

\* Any other exception leaves main uncaught
Uncaught ==
    /\ pc = "evaluated"
    /\ out.exc \notin {"", "EvalError"}
    /\ exit' = "traceback"
    /\ pc' = "done"
    /\ UNCHANGED <<input, out, printed, history, nread>>

\* Lines 274-275: print(format_result(result)); return 0
PrintResult ==
    /\ pc = "evaluated"
    /\ out.exc = ""
    /\ \E r \in format_result(out.v) :
          IF r.exc = "" THEN printed' = r.v /\ exit' = "0"
          ELSE printed' = printed /\ exit' = "traceback"
    /\ pc' = "done"
    /\ UNCHANGED <<input, out, history, nread>>

Next == Evaluate \/ ReportError \/ Uncaught \/ PrintResult

Spec == Init /\ [][Next]_vars

\* ---------------------------------------------------- repl (l. 158-209)
\* The lines typed at the prompt
RawLines ==
    {"1+1", " 2*3 ", "True", "inf-inf", "(-8)**0.5", "foo", "1/0", "1 +",
     "1<2", "round(inf)", "", "   ", "quit", "EXIT", "help", "H", "history",
     "clear"}

\* str.strip() on those lines
Strip(raw) ==
    CASE raw = " 2*3 " -> "2*3"
      [] raw = "   "   -> ""
      [] OTHER         -> raw

\* str.lower() on those lines
Lower(s) ==
    CASE s = "EXIT" -> "exit"
      [] s = "H"    -> "h"
      [] s = "True" -> "true"
      [] OTHER      -> s

\* ast.parse(s, mode="eval") on the stripped lines that reach line 200
ast_parse(s) ==
    CASE s = "1+1"        -> Parsed(BinOp("Add", Num(1), Num(1)))
      [] s = "2*3"        -> Parsed(BinOp("Mult", Num(2), Num(3)))
      [] s = "True"       -> Parsed(True)
      [] s = "inf-inf"    -> Parsed(BinOp("Sub", Name("inf"), Name("inf")))
      [] s = "(-8)**0.5"  -> Parsed(BinOp("Pow", UnaryOp("USub", Num(8)), Half))
      [] s = "foo"        -> Parsed(Name("foo"))
      [] s = "1/0"        -> Parsed(BinOp("Div", Num(1), Num(0)))
      [] s = "1<2"        -> Parsed(Compare)
      [] s = "round(inf)" -> Parsed(Call(Name("round"), <<Name("inf")>>))
      [] s = "1 +"        -> SyntaxError

\* history[-10:]
Last10(h) == SubSeq(h, IF Len(h) > 10 THEN Len(h) - 9 ELSE 1, Len(h))

IsCommand(s) ==
    s = "" \/ Lower(s) \in {"quit", "exit", "help", "h", "history", "clear"}

ReplInit ==
    /\ pc = "prompt"
    /\ input = ""
    /\ out = NoOut
    /\ printed = Nothing
    /\ exit = ""
    /\ history = <<>>
    /\ nread = 0

\* Lines 165-169: input() raises EOFError or KeyboardInterrupt; the loop ends
ReplEOF ==
    /\ pc = "prompt"
    /\ printed' = [f |-> "newline"]
    /\ pc' = "done"
    /\ exit' = "eof"
    /\ out' = NoOut
    /\ UNCHANGED <<input, history, nread>>

\* A line is read (line 166); the model reads at most MaxInputs lines
Read(raw) ==
    /\ pc = "prompt"
    /\ nread < MaxInputs
    /\ input' = raw
    /\ nread' = nread + 1

\* Lines 170-171: an empty line
ReplBlank ==
    \E raw \in RawLines :
        /\ Read(raw)
        /\ Strip(raw) = ""
        /\ out' = NoOut
        /\ UNCHANGED <<pc, printed, exit, history>>

\* Lines 172-173: quit or exit
ReplQuit ==
    \E raw \in RawLines :
        /\ Read(raw)
        /\ Strip(raw) # ""
        /\ Lower(Strip(raw)) \in {"quit", "exit"}
        /\ pc' = "done"
        /\ exit' = "quit"
        /\ out' = NoOut
        /\ UNCHANGED <<printed, history>>

\* Lines 174-184: help
ReplHelp ==
    \E raw \in RawLines :
        /\ Read(raw)
        /\ Lower(Strip(raw)) \in {"help", "h"}
        /\ printed' = [f |-> "help"]
        /\ out' = NoOut
        /\ UNCHANGED <<pc, exit, history>>

\* Lines 185-193: history
ReplHistory ==
    \E raw \in RawLines :
        /\ Read(raw)
        /\ Lower(Strip(raw)) = "history"
        /\ printed' = IF history # <<>>
                      THEN [f |-> "history", entries |-> Last10(history)]
                      ELSE [f |-> "No calculation history yet."]
        /\ out' = NoOut
        /\ UNCHANGED <<pc, exit, history>>

\* Lines 194-197: clear
ReplClear ==
    \E raw \in RawLines :
        /\ Read(raw)
        /\ Lower(Strip(raw)) = "clear"
        /\ history' = <<>>
        /\ printed' = [f |-> "History cleared."]
        /\ out' = NoOut
        /\ UNCHANGED <<pc, exit>>

\* Lines 199-209: any other line is evaluated.  EvalError and every other
\* Exception of evaluate_expression are caught and printed; format_result
\* runs in the else clause, outside the try, so its exception leaves repl.
\* The model takes such a line only while the history holds < MaxHist entries.
ReplEvaluate ==
    \E raw \in RawLines :
        /\ Read(raw)
        /\ ~IsCommand(Strip(raw))
        /\ Len(history) < MaxHist
        /\ \E o \in evaluate_expression(ast_parse(Strip(raw))) :
              /\ out' = o
              /\ IF o.exc = "EvalError"
                 THEN /\ printed' = [f |-> "Error", msg |-> o.msg]
                      /\ UNCHANGED <<pc, exit, history>>
                 ELSE IF o.exc # ""
                 THEN /\ printed' = [f |-> "Unexpected error", msg |-> o.exc]
                      /\ UNCHANGED <<pc, exit, history>>
                 ELSE \E r \in format_result(o.v) :
                        IF r.exc = ""
                        THEN /\ printed' = r.v
                             /\ history' = Append(history, <<Strip(raw), r.v>>)
                             /\ UNCHANGED <<pc, exit>>
                        ELSE /\ pc' = "done"
                             /\ exit' = "traceback"
                             /\ UNCHANGED <<printed, history>>

ReplNext ==
    \/ ReplEOF
    \/ ReplBlank
    \/ ReplQuit
    \/ ReplHelp
    \/ ReplHistory
    \/ ReplClear
    \/ ReplEvaluate

ReplSpec == ReplInit /\ [][ReplNext]_vars

\* ------------------------------------------------------------ properties
\* The children of a node, in the order safe_eval takes them
Children(node) ==
    CASE node.t = "Expression" -> <<node.body>>
      [] node.t = "BinOp"      -> <<node.left, node.right>>
      [] node.t = "UnaryOp"    -> <<node.operand>>
      [] node.t = "Call"       -> node.args
      [] OTHER                 -> <<>>

RECURSIVE NodeAt(_, _)
NodeAt(node, path) ==
    IF path = <<>> THEN node ELSE NodeAt(Children(node)[Head(path)], Tail(path))

RECURSIVE AllPaths(_, _)
AllPaths(node, p) ==
    {p} \cup UNION {AllPaths(Children(node)[i], Append(p, i))
                    : i \in 1 .. Len(Children(node))}

IsPrefix(p, q) == Len(p) <= Len(q) /\ SubSeq(q, 1, Len(p)) = p
\* p is q or comes before q when the tree is walked parents first, left to right
PreLE(p, q) ==
    \/ IsPrefix(p, q)
    \/ \E i \in 1 .. Len(p) :
         /\ i <= Len(q)
         /\ SubSeq(p, 1, i - 1) = SubSeq(q, 1, i - 1)
         /\ p[i] < q[i]

\* One-shot run: evaluate_expression has run on a parsed expression
Evaluated == pc \in {"evaluated", "done"} /\ input.exc = ""
TheTree   == input.tree
EventsOf(kinds) == {i \in 1 .. Len(out.trace) : out.trace[i].e \in kinds}
\* The events of applying operator op at a BinOp node
BinOpEvents(op) ==
    {out.trace[i] : i \in {j \in EventsOf({"binop"}) :
                              NodeAt(TheTree, out.trace[j].at).op = op}}

BadCallee(node) ==
    node.t = "Call" /\ ~(node.func.t = "Name" /\ node.func.id \in allowed_functions)

\* C1: every call whose callee is not a bare name of the 19 allowed names
\* makes safe_eval fail with the disallowed-function EvalError, raised at that
\* call as soon as it is entered: none of its arguments is evaluated and no
\* builtin or math function is invoked for it.
C1_DisallowedCallRejected ==
    Evaluated =>
        \A i \in EventsOf({"visit"}) :
            BadCallee(NodeAt(TheTree, out.trace[i].at)) =>
                /\ out.exc = "EvalError"
                /\ out.msg = "Function calls are not allowed"
                /\ out.at = out.trace[i].at
                /\ i = Len(out.trace)

\* C1 witness: a disallowed call with an argument list was reached below the
\* root, after other nodes had been evaluated.
C1_Witness ==
    /\ Evaluated
    /\ out.msg = "Function calls are not allowed"
    /\ Len(out.at) > 1
    /\ Len(NodeAt(TheTree, out.at).args) > 0

\* C2 (as claimed): evaluate_expression returns a value or raises EvalError;
\* no other exception escapes.
C2_OnlyEvalErrorEscapes ==
    pc # "main" => out.exc \in {"", "EvalError"}

\* C3 (as claimed): a call of an allowed function with zero or with more than
\* one argument fails with EvalError and never returns a value.
C3_WrongArityIsEvalError ==
    Evaluated =>
        LET call == TheTree.body IN
        (call.t = "Call" /\ ~BadCallee(call) /\ Len(call.args) # 1)
            => out.exc = "EvalError"

\* C4 (as claimed): a division whose right operand is 0 yields an IEEE special
\* value, infinity or NaN, and no error.
C4_DivByZeroYieldsSpecial ==
    Evaluated =>
        \A ev \in BinOpEvents("Div") :
            IsZero(ev.args[2]) => ev.res.exc = "" /\ ev.res.v.k \in {"inf", "nan"}

\* C4 (amended): a division whose right operand evaluates to 0 raises, for
\* every left operand, and safe_eval fails with the EvalError "Error
\* evaluating binary op" of that Div node.
C4_DivByZeroRaisesEvalError ==
    Evaluated =>
        \A ev \in BinOpEvents("Div") :
            IsZero(ev.args[2]) =>
                /\ ev.res.exc = "ZeroDivisionError"
                /\ out.exc = "EvalError"
                /\ out.msg = "Error evaluating binary op"
                /\ out.at = ev.at

\* C4 witness: an infinite left operand was divided by a right operand that
\* was computed to be 0.
C4_Witness ==
    /\ Evaluated
    /\ \E ev \in BinOpEvents("Div") :
          /\ IsZero(ev.args[2])
          /\ ev.args[1].k = "inf"
          /\ NodeAt(TheTree, ev.at).right.t # "Constant"

HasLiteral(types) ==
    \E q \in AllPaths(TheTree, <<>>) :
        LET node == NodeAt(TheTree, q) IN node.t = "Constant" /\ node.ty \in types

\* C5 (as claimed): an expression with a string or a boolean literal anywhere
\* in it fails; the literal is never evaluated to a number.
C5_UnsupportedLiteralFails ==
    (Evaluated /\ HasLiteral({"str", "bool"})) => out.exc # ""

\* The Mod operations on tracked operands with a non-zero, tracked remainder
ModCases ==
    {ev \in BinOpEvents("Mod") :
        /\ ev.args[1].k \in {"q", "inf"}
        /\ ev.args[2].k \in {"q", "inf"}
        /\ ev.res.exc = ""
        /\ ev.res.v.k \in {"q", "inf"}
        /\ Sign(ev.res.v) # 0}

\* C6 (as claimed): a non-zero remainder a % b has the sign of the left
\* operand a.
C6_ModHasSignOfDividend ==
    Evaluated => \A ev \in ModCases : Sign(ev.res.v) = Sign(ev.args[1])

\* C6 (amended): a non-zero remainder a % b has the sign of the right operand
\* b, the divisor, also when a and b have opposite signs.
C6_ModHasSignOfDivisor ==
    Evaluated => \A ev \in ModCases : Sign(ev.res.v) = Sign(ev.args[2])

\* C6 witness: a remainder of operands of opposite signs was computed.
C6_Witness ==
    /\ Evaluated
    /\ \E ev \in ModCases :
          Sign(ev.args[1]) # 0 /\ Sign(ev.args[1]) = -Sign(ev.args[2])

\* C7 (as claimed): a power with a negative base and a fractional exponent
\* fails or yields NaN; it never yields a complex number.
C7_PowNeverComplex ==
    Evaluated =>
        \A ev \in BinOpEvents("Pow") :
            (/\ ev.args[1].k = "q" /\ ev.args[1].n < 0
             /\ ev.args[2].k = "q" /\ ev.args[2].d # 1)
                => (ev.res.exc # "" \/ ev.res.v.k = "nan")

\* C8 (as claimed): the REPL ends only on quit, exit, end of input or an
\* interrupt; no expression line ends it.  (Checked under ReplSpec.)
C8_OnlyQuitOrEofEndsRepl ==
    exit \in {"", "quit", "eof"}

\* ---- the order of evaluation
NotFound      == [found |-> FALSE, at |-> <<>>, msg |-> ""]
Found(at, m)  == [found |-> TRUE, at |-> at, msg |-> m]
\* What is wrong with the node itself, if anything
OwnFault(node, p) ==
    CASE node.t = "Constant" ->
            IF IsIntOrFloat(node.ty) THEN NotFound
            ELSE Found(p, "Unsupported constant type")
      [] node.t = "Name" ->
            IF node.id \in DOMAIN constants THEN NotFound
            ELSE Found(p, "Undefined variable")
      [] node.t = "BinOp" ->
            IF node.op \in ALLOWED_BINARY_OPS THEN NotFound
            ELSE Found(p, "Operator not allowed")
      [] node.t = "UnaryOp" ->
            IF node.op \in ALLOWED_UNARY_OPS THEN NotFound
            ELSE Found(p, "Unary operator not allowed")
      [] node.t = "Call" ->
            IF BadCallee(node) THEN Found(p, "Function calls are not allowed")
            ELSE NotFound
      [] node.t = "Expression" -> NotFound
      [] OTHER -> Found(p, "Unsupported AST node")

RECURSIVE FirstIn(_, _, _, _)
RECURSIVE FirstOf(_, _, _)
\* The first disallowed construct among the children i.. of the node at p
FirstIn(kids, i, p, nodeFirst) ==
    IF i > Len(kids) THEN NotFound
    ELSE LET f == FirstOf(kids[i], Append(p, i), nodeFirst)
         IN  IF f.found THEN f ELSE FirstIn(kids, i + 1, p, nodeFirst)
\* The first disallowed construct of the tree at p.  nodeFirst: a node is
\* examined before its operands.  Otherwise the order of the code: the
\* operands of a BinOp and of a UnaryOp before the operator, the callee of a
\* Call before its arguments
FirstOf(node, p, nodeFirst) ==
    LET own  == OwnFault(node, p)
        kids == FirstIn(Children(node), 1, p, nodeFirst)
    IN  IF nodeFirst \/ node.t \notin {"BinOp", "UnaryOp"}
        THEN (IF own.found THEN own ELSE kids)
        ELSE (IF kids.found THEN kids ELSE own)

DisallowedMsgs ==
    {"Unsupported constant type", "Undefined variable", "Operator not allowed",
     "Unary operator not allowed", "Function calls are not allowed"}

\* C9 (as claimed): the error raised is that of the first disallowed
\* construct, a node being examined before its operands, operands left to
\* right.
C9_NodeBeforeOperands ==
    (Evaluated /\ out.msg \in DisallowedMsgs) =>
        LET first == FirstOf(TheTree, <<>>, TRUE)
        IN  out.at = first.at /\ out.msg = first.msg

\* The failure was raised after the operands of its node had been evaluated
RaisedAfterOperands ==
    \/ out.msg \in {"Operator not allowed", "Error evaluating binary op",
                    "Unary operator not allowed", "Error calling"}
    \/ out.exc # "EvalError" /\ NodeAt(TheTree, out.at).t = "Call"

\* The failure is that of an operator or of a function applied to its operands
ArithmeticFailure ==
    \/ out.msg \in {"Error evaluating binary op", "Error calling"}
    \/ out.exc \notin {"", "EvalError"} /\ NodeAt(TheTree, out.at).t = "Call"

\* C9 (amended): safe_eval fails at the first disallowed construct met in the
\* order of the code: the operands of a BinOp (left, then right) and of a
\* UnaryOp before the node's operator is looked up, the callee of a Call
\* before its arguments, the arguments left to right.  An expression with a
\* disallowed construct never returns a value; unless an operation applied
\* before it has failed, the failure is raised at that first construct and an
\* EvalError raised is that construct's; and after any failure nothing more
\* is done: the nodes entered are exactly those before the failing node (and
\* its operands, when it failed after them), each once, and no operation is
\* applied at a node above it.
C9_FailFastInCodeOrder ==
    Evaluated =>
        LET first   == FirstOf(TheTree, <<>>, FALSE)
            visits  == EventsOf({"visit"})
            entered == {out.trace[i].at : i \in visits}
        IN  /\ first.found => out.exc # ""
            /\ (out.exc # "" /\ ~ArithmeticFailure) =>
                  /\ first.found /\ out.at = first.at
                  /\ out.exc = "EvalError" => out.msg = first.msg
            /\ out.exc # "" =>
                  /\ entered = {q \in AllPaths(TheTree, <<>>) :
                                   \/ PreLE(q, out.at)
                                   \/ RaisedAfterOperands /\ IsPrefix(out.at, q)}
                  /\ Cardinality(entered) = Cardinality(visits)
                  /\ \A i \in EventsOf({"binop", "unop", "call"}) :
                        LET at == out.trace[i].at
                        IN  IsPrefix(at, out.at) =>
                               at = out.at /\ RaisedAfterOperands

\* C9 witness: an operator that is not allowed was found after both operands
\* had been evaluated and an operation applied inside them.
C9_Witness ==
    /\ Evaluated
    /\ out.msg = "Operator not allowed"
    /\ EventsOf({"binop", "unop", "call"}) # {}
    /\ \E i \in EventsOf({"visit"}) : out.trace[i].at = Append(out.at, 2)

\* C10 (as claimed): every line read changes the history as follows: a
\* successful evaluation appends <<line, formatted result>> at the end, clear
\* empties it, anything else leaves it unchanged.  (Checked under ReplSpec.)
C10_HistoryIsLogOfSuccesses ==
    [][nread' = nread + 1 =>
         history' = IF out'.exc = ""
                    THEN Append(history, <<Strip(input'), printed'>>)
                    ELSE IF Lower(Strip(input')) = "clear" THEN <<>>
                    ELSE history]_vars
====
